---- MODULE Spec2Model ----
(***************************************************************************)
(* A model of speyl (github.com/Descent098/speyl): the string distance and *)
(* similarity functions of package algorithms, the best-match selector     *)
(* SuggestWord with its threshold wrapper, and the lock-guarded            *)
(* one-goroutine-per-candidate selector.                                   *)
(*                                                                         *)
(* A Go string is a sequence of bytes; it is modelled as a sequence of     *)
(* byte values.  len(s) is Len(s), s[i] is At(s, i) and s[k:] is           *)
(* From(s, k), both 0-based as in Go.  An index outside the string is a    *)
(* run-time panic in Go; here it yields Panic (PanicStr for a slice),      *)
(* which every function hands on to its caller.                            *)
(***************************************************************************)
EXTENDS Integers, Sequences, FiniteSets, TLC

\* ------------------------------------------------------------------ bounds

\* The longest input string, in bytes.
MaxLen == 4

\* ---------------------------------------------------------------- strings

\* The value a function returns in place of a result when it panicked.
Panic == 0 - 1
PanicStr == <<Panic>>

\* The separator of the memoization key, the byte '|'.
Sep == 124

\* The characters inputs are drawn from, UTF-8 encoded: a, | and e-acute (two
\* bytes).
Chars == {<<97>>, <<Sep>>, <<195, 169>>}

\* Well-formed UTF-8 strings over Chars of at most n bytes.
RECURSIVE StringsUpTo(_)
StringsUpTo(n) ==
  {<<>>} \cup UNION {{c \o s : s \in StringsUpTo(n - Len(c))} : c \in {d \in Chars : Len(d) <= n}}

Strings == StringsUpTo(MaxLen)

Min2(x, y) == IF x <= y THEN x ELSE y
Max2(x, y) == IF x >= y THEN x ELSE y
MinOf(S) == CHOOSE x \in S : \A y \in S : x <= y

\* 1 + min(...) of results, a panic among them handed on.
Add1Min(S) == IF Panic \in S THEN Panic ELSE 1 + MinOf(S)

\* s[i]
At(s, i) == IF i >= 0 /\ i < Len(s) THEN s[i + 1] ELSE Panic

\* s[k:]
From(s, k) == IF k >= 0 /\ k <= Len(s) THEN SubSeq(s, k + 1, Len(s)) ELSE PanicStr

\* s[i] == t[j]: 1 when equal, 0 when not, Panic when an index is out of range.
EqAt(s, i, t, j) ==
  IF At(s, i) = Panic \/ At(t, j) = Panic THEN Panic
  ELSE IF At(s, i) = At(t, j) THEN 1 ELSE 0

\* []rune(s): UTF-8 decoding.  One- and two-byte encodings are decoded (Chars
\* holds no longer one); any other byte decodes to U+FFFD and is skipped alone.
RECURSIVE Runes(_)
Runes(s) ==
  IF Len(s) = 0 THEN <<>>
  ELSE IF s[1] < 128 THEN <<s[1]>> \o Runes(Tail(s))
  ELSE IF s[1] >= 194 /\ s[1] <= 223 /\ Len(s) >= 2 /\ s[2] >= 128 /\ s[2] <= 191
    THEN <<(s[1] - 192) * 64 + (s[2] - 128)>> \o Runes(SubSeq(s, 3, Len(s)))
  ELSE <<65533>> \o Runes(Tail(s))

\* ------------------------------------------------------ distance primitives

RECURSIVE RecursiveLevenshtein(_, _)
RecursiveLevenshtein(inputString, targetString) ==
  IF inputString = PanicStr \/ targetString = PanicStr THEN Panic
  ELSE IF Len(inputString) = 0 THEN Len(targetString)
  ELSE IF Len(targetString) = 0 THEN Len(inputString)
  ELSE LET firstEqual == EqAt(inputString, 0, targetString, 0)
           restInputString == From(inputString, 1)
           restTargetString == From(targetString, 1)
       IN IF firstEqual = Panic THEN Panic
          ELSE IF firstEqual = 1
            THEN RecursiveLevenshtein(restInputString, restTargetString)
          ELSE Add1Min({RecursiveLevenshtein(inputString, restTargetString),
                        RecursiveLevenshtein(restInputString, targetString),
                        RecursiveLevenshtein(restInputString, restTargetString)})

\* matrix[i][j], Panic outside the matrix.
MatAt(matrix, i, j) ==
  IF i \in DOMAIN matrix /\ j \in DOMAIN matrix[i] THEN matrix[i][j] ELSE Panic

\* LevCell taking the largest of the three neighbours, not the smallest.
LevCell_Max(matrix, inputStringRunes, targetStringRunes, i, j) ==
  LET same == EqAt(inputStringRunes, i - 1, targetStringRunes, j - 1)
      around == {MatAt(matrix, i, j - 1), MatAt(matrix, i - 1, j), MatAt(matrix, i - 1, j - 1)}
  IN IF same = Panic THEN Panic
     ELSE IF same = 1 THEN MatAt(matrix, i - 1, j - 1)
     ELSE IF Panic \in around THEN Panic
     ELSE 1 + (CHOOSE x \in around : \A y \in around : x >= y)

\* The body of the inner loop: the value stored in matrix[i][j].
LevCell(matrix, inputStringRunes, targetStringRunes, i, j) ==
  LET same == EqAt(inputStringRunes, i - 1, targetStringRunes, j - 1)
  IN IF same = Panic THEN Panic
     ELSE IF same = 1 THEN MatAt(matrix, i - 1, j - 1)
     ELSE Add1Min({MatAt(matrix, i, j - 1),
                   MatAt(matrix, i - 1, j),
                   MatAt(matrix, i - 1, j - 1)})

\* The two nested loops that fill the matrix, from cell (i, j) on.
RECURSIVE LevFill(_, _, _, _, _)
LevFill(matrix, inputStringRunes, targetStringRunes, i, j) ==
  IF i > Len(inputStringRunes) THEN matrix
  ELSE IF j > Len(targetStringRunes)
    THEN LevFill(matrix, inputStringRunes, targetStringRunes, i + 1, 1)
  ELSE LevFill([matrix EXCEPT ![i][j] =
                  LevCell(matrix, inputStringRunes, targetStringRunes, i, j)],
               inputStringRunes, targetStringRunes, i, j + 1)

DynamicLevenshtein(inputString, targetString) ==
  LET inputStringRunes == Runes(inputString)
      targetStringRunes == Runes(targetString)
      inputStringLength == Len(inputStringRunes)
      targetStringLength == Len(targetStringRunes)
      base == [i \in 0..inputStringLength |->
                 [j \in 0..targetStringLength |->
                    IF j = 0 THEN i ELSE IF i = 0 THEN j ELSE 0]]
      matrix == LevFill(base, inputStringRunes, targetStringRunes, 1, 1)
  IN IF \E i \in DOMAIN matrix : \E j \in DOMAIN matrix[i] : matrix[i][j] = Panic
       THEN Panic
     ELSE MatAt(matrix, inputStringLength, targetStringLength)

LevenshteinDistance(inputString, targetString) ==
  DynamicLevenshtein(inputString, targetString)

\* IndelDistance charging nothing for a deletion or an insertion.
RECURSIVE IndelDistance_NoCost(_, _)
IndelDistance_NoCost(inputString, targetString) ==
  IF Len(inputString) = 0 THEN Len(targetString)
  ELSE IF Len(targetString) = 0 THEN Len(inputString)
  ELSE IF inputString[1] = targetString[1]
    THEN IndelDistance_NoCost(Tail(inputString), Tail(targetString))
  ELSE Min2(IndelDistance_NoCost(Tail(inputString), targetString),
            IndelDistance_NoCost(inputString, Tail(targetString)))

\* IndelDistance that may also replace the first character at cost 1.
RECURSIVE IndelDistance_Replace(_, _)
IndelDistance_Replace(inputString, targetString) ==
  IF Len(inputString) = 0 THEN Len(targetString)
  ELSE IF Len(targetString) = 0 THEN Len(inputString)
  ELSE IF inputString[1] = targetString[1]
    THEN IndelDistance_Replace(Tail(inputString), Tail(targetString))
  ELSE 1 + MinOf({IndelDistance_Replace(Tail(inputString), targetString),
                  IndelDistance_Replace(inputString, Tail(targetString)),
                  IndelDistance_Replace(Tail(inputString), Tail(targetString))})

RECURSIVE IndelDistance(_, _)
IndelDistance(inputString, targetString) ==
  IF inputString = PanicStr \/ targetString = PanicStr THEN Panic
  ELSE IF Len(inputString) = 0 THEN Len(targetString)
  ELSE IF Len(targetString) = 0 THEN Len(inputString)
  ELSE LET firstEqual == EqAt(inputString, 0, targetString, 0)
       IN IF firstEqual = Panic THEN Panic
          ELSE IF firstEqual = 1
            THEN IndelDistance(From(inputString, 1), From(targetString, 1))
          ELSE LET deleteCost == IndelDistance(From(inputString, 1), targetString)
                   insertCost == IndelDistance(inputString, From(targetString, 1))
               IN Add1Min({deleteCost, insertCost})

\* cache[key] = val; return cache[key]
Store(cache, key, val) ==
  [val |-> val,
   cache |-> [k \in DOMAIN cache \cup {key} |-> IF k = key THEN val ELSE cache[k]]]

\* The key of the memoization cache: a + "|" + b
CacheKey(a, b) == a \o <<Sep>> \o b

\* IsTransposition without its check of len(b).
IsTransposition_NoLenCheck(a, b) ==
  IF ~(Len(a) > 1) THEN 0
  ELSE IF EqAt(a, 0, b, 1) # 1 THEN EqAt(a, 0, b, 1)
  ELSE EqAt(a, 1, b, 0)

\* len(a) > 1 && len(b) > 1 && a[0] == b[1] && a[1] == b[0], evaluated left to
\* right: 1 when it holds, 0 when not, Panic when an index read is out of range.
IsTransposition(a, b) ==
  IF ~(Len(a) > 1) THEN 0
  ELSE IF ~(Len(b) > 1) THEN 0
  ELSE IF EqAt(a, 0, b, 1) # 1 THEN EqAt(a, 0, b, 1)
  ELSE EqAt(a, 1, b, 0)

\* The memoized inner function; the cache is handed through the calls in the
\* order the code makes them.  Returns [val, cache].
RECURSIVE calculateDamerauLevenshteinDistance(_, _, _)
calculateDamerauLevenshteinDistance(a, b, cache) ==
  IF a = PanicStr \/ b = PanicStr THEN [val |-> Panic, cache |-> cache]
  ELSE LET key == CacheKey(a, b)
       IN IF key \in DOMAIN cache THEN [val |-> cache[key], cache |-> cache]
          ELSE IF Len(a) = 0 THEN Store(cache, key, Len(b))
          ELSE IF Len(b) = 0 THEN Store(cache, key, Len(a))
          ELSE IF EqAt(a, 0, b, 0) = Panic THEN [val |-> Panic, cache |-> cache]
          ELSE IF EqAt(a, 0, b, 0) = 1
            THEN LET rest == calculateDamerauLevenshteinDistance(From(a, 1), From(b, 1), cache)
                 IN Store(rest.cache, key, rest.val)
          ELSE LET insert == calculateDamerauLevenshteinDistance(a, From(b, 1), cache)
                   delete == calculateDamerauLevenshteinDistance(From(a, 1), b, insert.cache)
                   replace == calculateDamerauLevenshteinDistance(From(a, 1), From(b, 1), delete.cache)
                   minCost == Add1Min({insert.val, delete.val, replace.val})
                   swapped == IsTransposition(a, b)
               IN IF swapped = Panic THEN [val |-> Panic, cache |-> replace.cache]
                  ELSE IF swapped = 1
                    THEN LET rest2 == calculateDamerauLevenshteinDistance(From(a, 2), From(b, 2), replace.cache)
                             transpose == Add1Min({rest2.val})
                         IN Store(rest2.cache, key,
                                  IF Panic \in {minCost, transpose} THEN Panic
                                  ELSE Min2(minCost, transpose))
                  ELSE Store(replace.cache, key, minCost)

DamerauLevenshtein(input, target) ==
  calculateDamerauLevenshteinDistance(input, target, <<>>).val

\* --------------------------------------------------------------- similarity

\* A float32 result is kept as the exact fraction num/den it rounds; divisors
\* are the divisors of the divisions made, and panic tells a run-time panic.
\* Rounding to float32 is monotone and keeps 0 and 1, so the fraction lies in
\* [0,1] exactly when the float32 does.
Similarity(num, den, divisors) ==
  [panic |-> FALSE, num |-> num, den |-> den, divisors |-> divisors]

PanicSimilarity == [panic |-> TRUE, num |-> 0, den |-> 1, divisors |-> {}]

\* The algorithm argument of CalculateSimilarity, a DistanceAlgorithm by name.
DistanceAlgorithms ==
  {"LevenshteinDistance", "RecursiveLevenshtein", "DamerauLevenshtein", "IndelDistance"}

\* algorithm(inputString, targetString)
Distance(algorithm, inputString, targetString) ==
  CASE algorithm = "LevenshteinDistance" -> LevenshteinDistance(inputString, targetString)
    [] algorithm = "RecursiveLevenshtein" -> RecursiveLevenshtein(inputString, targetString)
    [] algorithm = "DamerauLevenshtein" -> DamerauLevenshtein(inputString, targetString)
    [] algorithm = "IndelDistance" -> IndelDistance(inputString, targetString)

\* CalculateSimilarity normalizing by the longer length, not by the sum.
CalculateSimilarity_MaxLen(inputString, targetString, algorithm) ==
  LET longer == Max2(Len(inputString), Len(targetString))
  IN IF inputString = targetString THEN Similarity(1, 1, {})
     ELSE LET distance_ == Distance(algorithm, inputString, targetString)
          IN IF distance_ = Panic THEN PanicSimilarity
             ELSE Similarity(longer - distance_, longer, {longer})

CalculateSimilarity(inputString, targetString, algorithm) ==
  LET inputLength == Len(inputString)
      targetLength == Len(targetString)
  IN IF inputString = targetString THEN Similarity(1, 1, {})
     ELSE LET distance_ == Distance(algorithm, inputString, targetString)
          IN IF distance_ = Panic THEN PanicSimilarity
             ELSE Similarity((inputLength + targetLength) - distance_,
                             inputLength + targetLength,
                             {inputLength + targetLength})

\* s[i] = v
SetAt(s, i, v) == IF i >= 0 /\ i < Len(s) THEN [s EXCEPT ![i + 1] = v] ELSE PanicStr

\* The inner loop of the match count, from j on: the first j < end with
\* inputString[i] == targetString[j] && targetStringMatrix[j] == 0.
\* Returns j, or end when the loop ends without a match, or Panic.
\* FindMatch without the targetStringMatrix[j] == 0 test: a character of
\* targetString is matched again although it is already taken.
RECURSIVE FindMatch_IgnoreTaken(_, _, _, _, _, _)
FindMatch_IgnoreTaken(inputString, targetString, targetStringMatrix, i, j, end) ==
  IF ~(j < end) THEN Max2(j, end)
  ELSE LET same == EqAt(inputString, i, targetString, j)
       IN IF same = Panic THEN Panic
          ELSE IF same = 1 THEN j
          ELSE FindMatch_IgnoreTaken(inputString, targetString, targetStringMatrix, i, j + 1, end)

RECURSIVE FindMatch(_, _, _, _, _, _)
FindMatch(inputString, targetString, targetStringMatrix, i, j, end) ==
  IF ~(j < end) THEN Max2(j, end)
  ELSE LET same == EqAt(inputString, i, targetString, j)
       IN IF same = Panic THEN Panic
          ELSE IF same = 1 /\ At(targetStringMatrix, j) = Panic THEN Panic
          ELSE IF same = 1 /\ At(targetStringMatrix, j) = 0 THEN j
          ELSE FindMatch(inputString, targetString, targetStringMatrix, i, j + 1, end)

\* The outer loop of the match count, from i on.  st holds inputStringMatrix,
\* targetStringMatrix, matches and whether an index was out of range.
RECURSIVE CountMatches(_, _, _, _, _)
CountMatches(inputString, targetString, max_match_distance, i, st) ==
  IF st.panic \/ ~(i < Len(inputString)) THEN st
  ELSE LET start == Max2(0, i - max_match_distance)
           end == Min2(Len(targetString), i + max_match_distance + 1)
           j == FindMatch(inputString, targetString, st.targetStringMatrix, i, start, end)
       IN IF j = Panic
            THEN [st EXCEPT !.panic = TRUE]
          ELSE IF j < end
            THEN LET im == SetAt(st.inputStringMatrix, i, 1)
                     tm == SetAt(st.targetStringMatrix, j, 1)
                 IN CountMatches(inputString, targetString, max_match_distance, i + 1,
                      [inputStringMatrix |-> im, targetStringMatrix |-> tm,
                       matches |-> st.matches + 1,
                       panic |-> (im = PanicStr \/ tm = PanicStr)])
          ELSE CountMatches(inputString, targetString, max_match_distance, i + 1, st)

\* for targetStringMatrix[marker] == 0 { marker += 1 }: the marker after the
\* loop, or Panic when it runs past the end of targetStringMatrix.
RECURSIVE SkipUnmatched(_, _)
SkipUnmatched(targetStringMatrix, marker) ==
  IF At(targetStringMatrix, marker) = Panic THEN Panic
  ELSE IF At(targetStringMatrix, marker) = 0 THEN SkipUnmatched(targetStringMatrix, marker + 1)
  ELSE marker

\* The loop of calculateTranspositions from i on: the mismatch count, or Panic.
RECURSIVE CountMismatches(_, _, _, _, _, _, _)
CountMismatches(inputString, targetString, inputStringMatrix, targetStringMatrix, i, transpositions, marker) ==
  IF ~(i < Len(inputString)) THEN transpositions
  ELSE IF At(inputStringMatrix, i) = Panic THEN Panic
  ELSE IF At(inputStringMatrix, i) > 0
    THEN LET m2 == SkipUnmatched(targetStringMatrix, marker)
         IN IF m2 = Panic THEN Panic
            ELSE IF EqAt(inputString, i, targetString, m2) = Panic THEN Panic
            ELSE CountMismatches(inputString, targetString, inputStringMatrix,
                   targetStringMatrix, i + 1,
                   IF EqAt(inputString, i, targetString, m2) = 0
                     THEN transpositions + 1 ELSE transpositions,
                   m2 + 1)
  ELSE CountMismatches(inputString, targetString, inputStringMatrix,
         targetStringMatrix, i + 1, transpositions, marker)

calculateTranspositions(inputString, targetString, inputStringMatrix, targetStringMatrix) ==
  LET mismatches == CountMismatches(inputString, targetString, inputStringMatrix,
                                    targetStringMatrix, 0, 0, 0)
  IN IF mismatches = Panic THEN Panic ELSE mismatches \div 2

\* Returns a Similarity with, besides, the branch taken (kind) and the
\* matches and transpositions counted.
JaroSimilarity(inputString, targetString) ==
  IF inputString = targetString
    THEN [panic |-> FALSE, num |-> 1, den |-> 1, divisors |-> {},
          kind |-> "equal", matches |-> 0, transpositions |-> 0]
  ELSE
    LET inputStringLength == Len(inputString)
        targetStringLength == Len(targetString)
        max_match_distance == (Max2(inputStringLength, targetStringLength) \div 2) - 1
        counted == CountMatches(inputString, targetString, max_match_distance, 0,
                     [inputStringMatrix |-> [k \in 1..inputStringLength |-> 0],
                      targetStringMatrix |-> [k \in 1..targetStringLength |-> 0],
                      matches |-> 0, panic |-> FALSE])
        matches == counted.matches
        transpositions == calculateTranspositions(inputString, targetString,
                            counted.inputStringMatrix, counted.targetStringMatrix)
    IN IF counted.panic
         THEN [panic |-> TRUE, num |-> 0, den |-> 1, divisors |-> {},
               kind |-> "panic", matches |-> 0, transpositions |-> 0]
       ELSE IF matches < 1
         THEN [panic |-> FALSE, num |-> 0, den |-> 1, divisors |-> {},
               kind |-> "nomatch", matches |-> matches, transpositions |-> 0]
       ELSE IF transpositions = Panic
         THEN [panic |-> TRUE, num |-> 0, den |-> 1, divisors |-> {},
               kind |-> "panic", matches |-> matches, transpositions |-> 0]
       ELSE [panic |-> FALSE,
             num |-> matches * matches * targetStringLength
                     + matches * matches * inputStringLength
                     + (matches - transpositions) * inputStringLength * targetStringLength,
             den |-> 3 * inputStringLength * targetStringLength * matches,
             divisors |-> {inputStringLength, targetStringLength, matches},
             kind |-> "formula", matches |-> matches, transpositions |-> transpositions]

\* ---------------------------------------------------------------- selector

\* A float32 score as an exact fraction with den > 0, and its comparisons.
Frac(num, den) == [num |-> num, den |-> den]
Zero == Frac(0, 1)

\* x >= y, in place of x > y.
GtOrEqual(x, y) == x.num * y.den >= y.num * x.den

\* x > y, the comparison of the selectors and of the threshold filter.
Gt(x, y) == x.num * y.den > y.num * x.den

\* The scores a caller's SimilarityAlgorithm may return: below 0, 0, and two
\* values above it.
ScoreLevels == {Frac(0 - 1, 2), Zero, Frac(1, 2), Frac(1, 1)}

\* algorithm(inputString, currentString).  The algorithm argument is kept as
\* the table currentString -> score of the caller's function for the query.
Apply(algorithm, inputString, currentString) == algorithm[currentString]

\* type Suggestion struct
Suggestion(Likelihood, Word) == [Likelihood |-> Likelihood, Word |-> Word]

\* The loop of algorithms.SuggestWord from the i-th candidate on.
RECURSIVE SuggestLoop(_, _, _, _, _, _)
SuggestLoop(inputString, validStrings, algorithm, i, highestRatio, result) ==
  IF i > Len(validStrings) THEN Suggestion(highestRatio, result)
  ELSE LET currentString == validStrings[i]
           likelihood == Apply(algorithm, inputString, currentString)
       IN IF Gt(likelihood, highestRatio)
            THEN SuggestLoop(inputString, validStrings, algorithm, i + 1,
                             likelihood, currentString)
          ELSE SuggestLoop(inputString, validStrings, algorithm, i + 1,
                           highestRatio, result)

\* SuggestWord starting from a best score below 0.
SuggestWord_InitBelowZero(inputString, validStrings, algorithm) ==
  SuggestLoop(inputString, validStrings, algorithm, 1, Frac(0 - 1, 1), <<>>)

\* algorithms.SuggestWord
SuggestWord(inputString, validStrings, algorithm) ==
  SuggestLoop(inputString, validStrings, algorithm, 1, Zero, <<>>)

\* The score JaroSimilarity returns, as a fraction.
JaroScore(inputString, targetString) ==
  LET j == JaroSimilarity(inputString, targetString) IN Frac(j.num, j.den)

\* The loop of speyl.SuggestWord from the i-th candidate on.
RECURSIVE SpeylSuggestLoop(_, _, _, _, _)
SpeylSuggestLoop(word_, validWords_, i, highestRatio, currentSuggestion) ==
  IF i > Len(validWords_) THEN Suggestion(highestRatio, currentSuggestion)
  ELSE LET currentWord == validWords_[i]
           res == JaroScore(word_, currentWord)
       IN IF Gt(res, highestRatio)
            THEN SpeylSuggestLoop(word_, validWords_, i + 1, res, currentWord)
          ELSE SpeylSuggestLoop(word_, validWords_, i + 1, highestRatio, currentSuggestion)

\* speyl.SuggestWord
SpeylSuggestWord(word_, validWords_) ==
  SpeylSuggestLoop(word_, validWords_, 1, Zero, <<>>)

\* SuggestWordWithThreshold letting a likelihood equal to the threshold pass.
SuggestWordWithThreshold_NonStrict(inputString, validStrings, threshold_, algorithm) ==
  LET suggested == SuggestWord(inputString, validStrings, algorithm)
  IN [suggested |-> suggested,
      calls |-> 1,
      word |-> IF Gt(threshold_, suggested.Likelihood) THEN <<>> ELSE suggested.Word]

\* algorithms.SuggestWordWithThreshold: the word returned, the Suggestion of
\* its call of SuggestWord, and how many calls of SuggestWord it makes.
SuggestWordWithThreshold(inputString, validStrings, threshold_, algorithm) ==
  LET suggested == SuggestWord(inputString, validStrings, algorithm)
  IN [suggested |-> suggested,
      calls |-> 1,
      word |-> IF ~Gt(suggested.Likelihood, threshold_) THEN <<>> ELSE suggested.Word]

\* ------------------------------------------------------------------ state

VARIABLES
  strA,          \* the first argument of a distance or similarity call
  strB,          \* its second argument
  called,        \* the function called, "none" before the call
  distance,      \* what a distance function returned
  similarity,    \* what a similarity function returned
  word,          \* the query of a selector call
  validWords,    \* its candidates
  algorithm,     \* its SimilarityAlgorithm
  threshold,     \* the threshold of SuggestWordWithThreshold
  op,            \* the selector called, "none" before the call
  suggestion,    \* the Suggestion of the selector
  thresholdWord, \* the word SuggestWordWithThreshold returned
  selectorCalls, \* the calls of SuggestWord that SuggestWordWithThreshold made
  pcMain,        \* where the concurrent selector's own goroutine is
  next,          \* the index of the candidate its loop is at
  gpc,           \* where the goroutine of each candidate is
  res,           \* the score each goroutine computed
  writeResultLock, \* whether the mutex is locked
  wg,            \* the counter of the WaitGroup
  highestRatio,  \* the shared best score
  currentSuggestion \* the shared best word

distVars == <<strA, strB, called, distance, similarity>>
selVars == <<word, validWords, algorithm, threshold, op, suggestion,
             thresholdWord, selectorCalls>>
concVars == <<pcMain, next, gpc, res, writeResultLock, wg, highestRatio,
              currentSuggestion>>
vars == <<distVars, selVars, concVars>>

NoSimilarity == Similarity(0, 1, {})

\* The selector's variables before any selector call.
SelIdle ==
  /\ word = <<>>
  /\ validWords = <<>>
  /\ algorithm = <<>>
  /\ threshold = Zero
  /\ op = "none"
  /\ suggestion = Suggestion(Zero, <<>>)
  /\ thresholdWord = <<>>
  /\ selectorCalls = 0

\* The concurrent selector's variables before it is called.
ConcIdle ==
  /\ pcMain = "idle"
  /\ next = 1
  /\ gpc = <<>>
  /\ res = <<>>
  /\ writeResultLock = FALSE
  /\ wg = 0
  /\ highestRatio = Zero
  /\ currentSuggestion = <<>>

\* The distance variables before any distance or similarity call.
DistIdle ==
  /\ strA = <<>>
  /\ strB = <<>>
  /\ called = "none"
  /\ distance = 0
  /\ similarity = NoSimilarity

\* ------------------------------------------ the functions applied to inputs

InitDist ==
  /\ strA \in Strings
  /\ strB \in Strings
  /\ called = "none"
  /\ distance = 0
  /\ similarity = NoSimilarity
  /\ SelIdle
  /\ ConcIdle

\* A call of one of the distance functions on (strA, strB).
CallDistance(name) ==
  /\ called = "none"
  /\ called' = name
  /\ distance' = Distance(name, strA, strB)
  /\ UNCHANGED <<strA, strB, similarity, selVars, concVars>>

CallLevenshteinDistance == CallDistance("LevenshteinDistance")
CallRecursiveLevenshtein == CallDistance("RecursiveLevenshtein")
CallDamerauLevenshtein == CallDistance("DamerauLevenshtein")
CallIndelDistance == CallDistance("IndelDistance")

\* A call of one of the similarity functions built on CalculateSimilarity.
CallSimilarity(name, distanceAlgorithm) ==
  /\ called = "none"
  /\ called' = name
  /\ similarity' = CalculateSimilarity(strA, strB, distanceAlgorithm)
  /\ UNCHANGED <<strA, strB, distance, selVars, concVars>>

CallLevenshteinSimilarity == CallSimilarity("LevenshteinSimilarity", "LevenshteinDistance")
CallRecursiveLevenshteinSimilarity ==
  CallSimilarity("RecursiveLevenshteinSimilarity", "RecursiveLevenshtein")
CallDamerauLevenshteinSimilarity ==
  CallSimilarity("DamerauLevenshteinSimilarity", "DamerauLevenshtein")
CallIndelSimilarity == CallSimilarity("IndelSimilarity", "IndelDistance")

CallJaroSimilarity ==
  /\ called = "none"
  /\ called' = "JaroSimilarity"
  /\ similarity' = JaroSimilarity(strA, strB)
  /\ UNCHANGED <<strA, strB, distance, selVars, concVars>>

NextDist ==
  \/ CallLevenshteinDistance
  \/ CallRecursiveLevenshtein
  \/ CallDamerauLevenshtein
  \/ CallIndelDistance
  \/ CallLevenshteinSimilarity
  \/ CallRecursiveLevenshteinSimilarity
  \/ CallDamerauLevenshteinSimilarity
  \/ CallIndelSimilarity
  \/ CallJaroSimilarity

SpecDist == InitDist /\ [][NextDist]_vars

\* ------------------------------------------------- the sequential selectors

\* The most candidates of a selector call.
MaxCands == 3

\* The queries and the candidate words of the selector calls: "a" and "aa";
\* "", "a|" and "aa".
QueryWords == {<<97>>, <<97, 97>>}
CandWords == {<<>>, <<97, Sep>>, <<97, 97>>}

\* Sequences over S of at most n elements.
RECURSIVE SeqsUpTo(_, _)
SeqsUpTo(S, n) ==
  IF n = 0 THEN {<<>>}
  ELSE LET shorter == SeqsUpTo(S, n - 1)
       IN shorter \cup {Append(q, x) : q \in {r \in shorter : Len(r) = n - 1}, x \in S}

Init ==
  /\ word \in QueryWords
  /\ validWords \in SeqsUpTo(CandWords, MaxCands)
  /\ algorithm \in [CandWords -> ScoreLevels]
  /\ threshold = Zero
  /\ op = "none"
  /\ suggestion = Suggestion(Zero, <<>>)
  /\ thresholdWord = <<>>
  /\ selectorCalls = 0
  /\ DistIdle
  /\ ConcIdle

\* algorithms.SuggestWord(word, validWords, algorithm), which is also
\* speyl.SuggestWordWithSpecificAlgorithm.
CallSuggestWord ==
  /\ op = "none"
  /\ op' = "SuggestWord"
  /\ suggestion' = SuggestWord(word, validWords, algorithm)
  /\ UNCHANGED <<word, validWords, algorithm, threshold, thresholdWord,
                 selectorCalls, distVars, concVars>>

\* speyl.SuggestWord(word, validWords)
CallSpeylSuggestWord ==
  /\ op = "none"
  /\ op' = "SpeylSuggestWord"
  /\ suggestion' = SpeylSuggestWord(word, validWords)
  /\ UNCHANGED <<word, validWords, algorithm, threshold, thresholdWord,
                 selectorCalls, distVars, concVars>>

\* algorithms.SuggestWordWithThreshold(word, validWords, t, algorithm)
CallSuggestWordWithThreshold ==
  /\ op = "none"
  /\ \E t \in ScoreLevels :
       LET r == SuggestWordWithThreshold(word, validWords, t, algorithm)
       IN /\ threshold' = t
          /\ suggestion' = r.suggested
          /\ thresholdWord' = r.word
          /\ selectorCalls' = selectorCalls + r.calls
  /\ op' = "SuggestWordWithThreshold"
  /\ UNCHANGED <<word, validWords, algorithm, distVars, concVars>>

Next ==
  \/ CallSuggestWord
  \/ CallSpeylSuggestWord
  \/ CallSuggestWordWithThreshold

Spec == Init /\ [][Next]_vars

\* ------------------------------------------------- the concurrent selector
\* SuggestWord with one goroutine per candidate and the shared best behind a
\* mutex.  The loop variable currentWord the goroutine writes is the
\* iteration's own (the module needs Go 1.22 for its range-over-int loops), so
\* it is the goroutine's wordToCompare.

\* The candidate words and the query of the concurrent calls: "a|" and "aa"; "a".
ConcWords == {<<97, Sep>>, <<97, 97>>}

InitConc ==
  /\ word = <<97>>
  /\ validWords \in SeqsUpTo(ConcWords, MaxCands)
  /\ algorithm \in [ConcWords -> ScoreLevels]
  /\ threshold = Zero
  /\ op = "none"
  /\ suggestion = Suggestion(Zero, <<>>)
  /\ thresholdWord = <<>>
  /\ selectorCalls = 0
  /\ DistIdle
  /\ pcMain = "loop"
  /\ next = 1
  /\ gpc = [g \in 1..Len(validWords) |-> "unborn"]
  /\ res = [g \in 1..Len(validWords) |-> Zero]
  /\ writeResultLock = FALSE
  /\ wg = 0
  /\ highestRatio = Zero
  /\ currentSuggestion = <<>>

Goroutines == 1..Len(validWords)

\* One turn of the loop: wg.Add(1); go func(wordToCompare string) {...}(currentWord)
Spawn ==
  /\ pcMain = "loop"
  /\ next <= Len(validWords)
  /\ wg' = wg + 1
  /\ gpc' = [gpc EXCEPT ![next] = "compute"]
  /\ next' = next + 1
  /\ UNCHANGED <<pcMain, res, writeResultLock, highestRatio, currentSuggestion,
                 selVars, distVars>>

\* The loop ends: wg.Wait() is reached.
LoopEnd ==
  /\ pcMain = "loop"
  /\ next > Len(validWords)
  /\ pcMain' = "wait"
  /\ UNCHANGED <<next, gpc, res, writeResultLock, wg, highestRatio,
                 currentSuggestion, selVars, distVars>>

\* wg.Wait() returns once the counter is 0.
Wait ==
  /\ pcMain = "wait"
  /\ wg = 0
  /\ pcMain' = "return"
  /\ UNCHANGED <<next, gpc, res, writeResultLock, wg, highestRatio,
                 currentSuggestion, selVars, distVars>>

\* return algorithms.Suggestion{Likelihood: highestRatio, Word: currentSuggestion}
Return ==
  /\ pcMain = "return"
  /\ pcMain' = "returned"
  /\ op' = "ConcurrentSuggestWord"
  /\ suggestion' = Suggestion(highestRatio, currentSuggestion)
  /\ UNCHANGED <<word, validWords, algorithm, threshold, thresholdWord,
                 selectorCalls, next, gpc, res, writeResultLock, wg,
                 highestRatio, currentSuggestion, distVars>>

\* res := algorithm(word, wordToCompare)
Compute(g) ==
  /\ gpc[g] = "compute"
  /\ res' = [res EXCEPT ![g] = Apply(algorithm, word, validWords[g])]
  /\ gpc' = [gpc EXCEPT ![g] = "lock"]
  /\ UNCHANGED <<pcMain, next, writeResultLock, wg, highestRatio,
                 currentSuggestion, selVars, distVars>>

\* Lock that does not wait for the mutex to be free.
Lock_NoWait(g) ==
  /\ gpc[g] = "lock"
  /\ writeResultLock' = TRUE
  /\ gpc' = [gpc EXCEPT ![g] = "compare"]
  /\ UNCHANGED <<pcMain, next, res, wg, highestRatio, currentSuggestion,
                 selVars, distVars>>

\* writeResultLock.Lock()
Lock(g) ==
  /\ gpc[g] = "lock"
  /\ ~writeResultLock
  /\ writeResultLock' = TRUE
  /\ gpc' = [gpc EXCEPT ![g] = "compare"]
  /\ UNCHANGED <<pcMain, next, res, wg, highestRatio, currentSuggestion,
                 selVars, distVars>>

\* if res > highestRatio { highestRatio = res; currentSuggestion = currentWord }
Compare(g) ==
  /\ gpc[g] = "compare"
  /\ IF Gt(res[g], highestRatio)
       THEN /\ highestRatio' = res[g]
            /\ currentSuggestion' = validWords[g]
       ELSE UNCHANGED <<highestRatio, currentSuggestion>>
  /\ gpc' = [gpc EXCEPT ![g] = "unlock"]
  /\ UNCHANGED <<pcMain, next, res, writeResultLock, wg, selVars, distVars>>

\* defer writeResultLock.Unlock(); unlocking an unlocked mutex is a fatal error.
Unlock(g) ==
  /\ gpc[g] = "unlock"
  /\ writeResultLock' = FALSE
  /\ gpc' = [gpc EXCEPT ![g] = IF writeResultLock THEN "done" ELSE "fatal"]
  /\ UNCHANGED <<pcMain, next, res, wg, highestRatio, currentSuggestion,
                 selVars, distVars>>

\* defer wg.Done()
Done(g) ==
  /\ gpc[g] = "done"
  /\ wg' = wg - 1
  /\ gpc' = [gpc EXCEPT ![g] = "exited"]
  /\ UNCHANGED <<pcMain, next, res, writeResultLock, highestRatio,
                 currentSuggestion, selVars, distVars>>

NextConc ==
  \/ Spawn
  \/ LoopEnd
  \/ Wait
  \/ Return
  \/ \E g \in Goroutines : Compute(g)
  \/ \E g \in Goroutines : Lock(g)
  \/ \E g \in Goroutines : Compare(g)
  \/ \E g \in Goroutines : Unlock(g)
  \/ \E g \in Goroutines : Done(g)

SpecConc == InitConc /\ [][NextConc]_vars

\* The program keeps running: as long as the caller or some goroutine can take
\* a step, a step is taken.
SpecConcFair == InitConc /\ [][NextConc]_vars /\ WF_vars(NextConc)

\* --------------------------------------------------------------- properties

SimilarityNames ==
  {"LevenshteinSimilarity", "RecursiveLevenshteinSimilarity",
   "DamerauLevenshteinSimilarity", "IndelSimilarity", "JaroSimilarity"}

FracLt(x, y) == x.num * y.den < y.num * x.den
FracEq(x, y) == x.num * y.den = y.num * x.den

SequentialOps == {"SuggestWord", "SpeylSuggestWord"}

\* The score of the i-th candidate in the selector call made.
Score(i) ==
  IF op = "SpeylSuggestWord" THEN JaroScore(word, validWords[i])
  ELSE algorithm[validWords[i]]

\* The i-th candidate's score is the maximum, and no earlier one attains it.
FirstMax(i) ==
  /\ \A j \in 1..Len(validWords) : ~FracLt(Score(i), Score(j))
  /\ \A j \in 1..(i - 1) : FracLt(Score(j), Score(i))

\* C1: when the maximum score is above 0, the sequential selector (SuggestWord,
\* and speyl.SuggestWord with JaroSimilarity) returns it as Likelihood and the
\* candidate at the smallest index attaining it as Word.
C1_SelectorReturnsFirstMaximum ==
  op \in SequentialOps =>
    \A i \in 1..Len(validWords) :
      (FirstMax(i) /\ FracLt(Zero, Score(i))) =>
        /\ FracEq(suggestion.Likelihood, Score(i))
        /\ suggestion.Word = validWords[i]

\* C1's case: two different candidates tie at the maximum, above 0, and the
\* earlier one was returned.
C1_Witness ==
  /\ op = "SuggestWord"
  /\ \E i, j \in 1..Len(validWords) :
       /\ i < j
       /\ validWords[i] # <<>>
       /\ validWords[i] # validWords[j]
       /\ FirstMax(i)
       /\ FracEq(Score(i), Score(j))
       /\ FracLt(Zero, Score(i))
       /\ suggestion.Word = validWords[i]

\* C2: the concurrent selector returns the Suggestion the sequential selector
\* returns for the same query, candidates and similarity function, whatever
\* the interleaving of its goroutines.
C2_ConcurrentEqualsSequential ==
  op = "ConcurrentSuggestWord" =>
    suggestion = SuggestWord(word, validWords, algorithm)

\* C3: SuggestWordWithThreshold calls the selector once and returns the
\* selector's Word when the Likelihood is strictly above the threshold, and the
\* empty string when it equals the threshold or is below it.
C3_ThresholdIsStrict ==
  op = "SuggestWordWithThreshold" =>
    /\ selectorCalls = 1
    /\ suggestion = SuggestWord(word, validWords, algorithm)
    /\ thresholdWord = IF FracLt(threshold, suggestion.Likelihood)
                         THEN suggestion.Word ELSE <<>>

\* C3's case: the best Likelihood equals the threshold, a word was found, and
\* the empty string was returned.
C3_Witness ==
  /\ op = "SuggestWordWithThreshold"
  /\ FracEq(suggestion.Likelihood, threshold)
  /\ suggestion.Word # <<>>
  /\ thresholdWord = <<>>

\* C4 as claimed: no candidates give {0, ""}, and any candidates at all give a
\* Word that is not empty.
C4_EmptyWordMeansNoCandidates ==
  op \in SequentialOps =>
    /\ Len(validWords) = 0 => suggestion = Suggestion(Zero, <<>>)
    /\ Len(validWords) > 0 => suggestion.Word # <<>>

\* C4 amended: no candidates give {0, ""}; with candidates the Word is empty
\* exactly when no candidate scores above 0 (the Likelihood is then 0) or the
\* winning candidate is the empty string itself.
C4_EmptyWordCases ==
  op \in SequentialOps =>
    /\ Len(validWords) = 0 => suggestion = Suggestion(Zero, <<>>)
    /\ (\A i \in 1..Len(validWords) : ~FracLt(Zero, Score(i))) =>
         suggestion = Suggestion(Zero, <<>>)
    /\ suggestion.Word = <<>> <=>
         \/ \A i \in 1..Len(validWords) : ~FracLt(Zero, Score(i))
         \/ \E i \in 1..Len(validWords) :
              FirstMax(i) /\ FracLt(Zero, Score(i)) /\ validWords[i] = <<>>

\* C4's case: candidates were supplied, none of them the empty string, and the
\* Word returned is empty.
C4_Witness ==
  /\ op = "SuggestWord"
  /\ Len(validWords) > 0
  /\ \A i \in 1..Len(validWords) : validWords[i] # <<>>
  /\ suggestion.Word = <<>>

\* C5: no distance or similarity function panics on an index out of range,
\* and no division has a zero divisor, whatever the two strings.
C5_NoRuntimeError ==
  /\ called \in DistanceAlgorithms => distance # Panic
  /\ called \in SimilarityNames =>
       /\ ~similarity.panic
       /\ 0 \notin similarity.divisors
       /\ similarity.den # 0

\* C5's case: JaroSimilarity counted a transposition, so calculateTranspositions
\* moved its marker over matched characters in another order.
C5_Witness ==
  /\ called = "JaroSimilarity"
  /\ similarity.kind = "formula"
  /\ similarity.transpositions >= 1
  /\ Len(strA) # Len(strB)

NormalizedNames ==
  {"LevenshteinSimilarity", "IndelSimilarity", "DamerauLevenshteinSimilarity"}

\* C6: CalculateSimilarity with LevenshteinDistance, IndelDistance or
\* DamerauLevenshtein returns a value in [0,1], and 1 when the strings are equal.
C6_SimilarityInUnitInterval ==
  called \in NormalizedNames =>
    /\ ~similarity.panic
    /\ similarity.den > 0
    /\ 0 <= similarity.num
    /\ similarity.num <= similarity.den
    /\ strA = strB => similarity.num = similarity.den

\* C6's case: two different strings whose similarity is the lower end, 0.
C6_Witness ==
  /\ called = "IndelSimilarity"
  /\ strA # strB
  /\ similarity.num = 0

BoundedNames == {"LevenshteinDistance", "IndelDistance", "DamerauLevenshtein"}

C8_DamerauAtMostLevenshtein ==
  called = "DamerauLevenshtein" => distance <= LevenshteinDistance(strA, strB)

\* C9: IndelDistance(a, b) is at least LevenshteinDistance(a, b).
C9_IndelAtLeastLevenshtein ==
  called = "IndelDistance" => distance >= LevenshteinDistance(strA, strB)

\* C9's case: strings with a two-byte character that differ, where the
\* IndelDistance is strictly above the LevenshteinDistance.
C9_Witness ==
  /\ called = "IndelDistance"
  /\ Len(Runes(strA)) < Len(strA)
  /\ Len(strB) > 0
  /\ distance > LevenshteinDistance(strA, strB)

\* C10: each of the three distances is the same with its arguments exchanged.
C10_Symmetry ==
  called \in BoundedNames => distance = Distance(called, strB, strA)

\* Some character of a equals a character of b inside the match window:
\* positions i of a and j of b (from 0) with i - d <= j <= i + d, where
\* d = max(len(a), len(b)) div 2 - 1.
WindowMatch(a, b) ==
  LET d == (Max2(Len(a), Len(b)) \div 2) - 1
  IN \E i \in 0..(Len(a) - 1) : \E j \in 0..(Len(b) - 1) :
       /\ j >= i - d
       /\ j <= i + d
       /\ a[i + 1] = b[j + 1]

\* The characters of s at the positions marked in matrix, in order.
RECURSIVE MatchedChars(_, _)
MatchedChars(s, matrix) ==
  IF s = <<>> THEN <<>>
  ELSE IF Head(matrix) > 0 THEN <<Head(s)>> \o MatchedChars(Tail(s), Tail(matrix))
  ELSE MatchedChars(Tail(s), Tail(matrix))

\* The matched characters of a and of b paired in order: how many pairs differ.
MismatchedPairs(a, b) ==
  LET st == CountMatches(a, b, (Max2(Len(a), Len(b)) \div 2) - 1, 0,
              [inputStringMatrix |-> [k \in 1..Len(a) |-> 0],
               targetStringMatrix |-> [k \in 1..Len(b) |-> 0],
               matches |-> 0, panic |-> FALSE])
      ma == MatchedChars(a, st.inputStringMatrix)
      mb == MatchedChars(b, st.targetStringMatrix)
  IN Cardinality({k \in 1..Min2(Len(ma), Len(mb)) : ma[k] # mb[k]})

\* C11: JaroSimilarity(a, b) is in [0,1]; it is 1 when a = b, 0 when no
\* character matches inside the match window, and otherwise
\* (m/|a| + m/|b| + (m - t)/m) / 3 with 1 <= m <= min(|a|, |b|), 0 <= t <= m
\* and t the number of mismatched matched pairs divided by 2.
C11_JaroValue ==
  called = "JaroSimilarity" =>
    LET la == Len(strA)
        lb == Len(strB)
        m == similarity.matches
        t == similarity.transpositions
    IN /\ ~similarity.panic
       /\ similarity.den > 0
       /\ 0 <= similarity.num
       /\ similarity.num <= similarity.den
       /\ strA = strB => similarity.num = similarity.den
       /\ (strA # strB /\ ~WindowMatch(strA, strB)) => similarity.num = 0
       /\ (strA # strB /\ WindowMatch(strA, strB)) =>
            /\ 1 <= m
            /\ m <= Min2(la, lb)
            /\ 0 <= t
            /\ t <= m
            /\ t = MismatchedPairs(strA, strB) \div 2
            /\ FracEq(similarity,
                      Frac(m * m * lb + m * m * la + (m - t) * la * lb,
                           3 * la * lb * m))

\* C11's case: two different strings of equal length whose every character is
\* matched, with a transposition, so the value is strictly between 0 and 1.
C11_Witness ==
  /\ called = "JaroSimilarity"
  /\ strA # strB
  /\ Len(strA) = Len(strB)
  /\ similarity.matches = Len(strA)
  /\ similarity.transpositions >= 1
  /\ 0 < similarity.num
  /\ similarity.num < similarity.den

\* The recurrence calculateDamerauLevenshteinDistance implements, without the
\* cache: empty-string base cases, a free match of equal first characters,
\* otherwise 1 + min(insert, delete, replace) and, when a[0] = b[1] and
\* a[1] = b[0], the minimum with 1 + the distance of a[2:] and b[2:].
RECURSIVE DamerauRecurrence(_, _)
DamerauRecurrence(a, b) ==
  IF Len(a) = 0 THEN Len(b)
  ELSE IF Len(b) = 0 THEN Len(a)
  ELSE IF a[1] = b[1] THEN DamerauRecurrence(Tail(a), Tail(b))
  ELSE LET minCost == 1 + MinOf({DamerauRecurrence(a, Tail(b)),
                                 DamerauRecurrence(Tail(a), b),
                                 DamerauRecurrence(Tail(a), Tail(b))})
       IN IF Len(a) > 1 /\ Len(b) > 1 /\ a[1] = b[2] /\ a[2] = b[1]
            THEN Min2(minCost, 1 + DamerauRecurrence(Tail(Tail(a)), Tail(Tail(b))))
          ELSE minCost

\* C12: the memoized DamerauLevenshtein(a, b) returns the value of the
\* recurrence it implements, also for strings that contain '|'.
C12_MemoizedEqualsRecurrence ==
  called = "DamerauLevenshtein" => distance = DamerauRecurrence(strA, strB)

\* x is a subsequence of y.
RECURSIVE IsSubsequence(_, _)
IsSubsequence(x, y) ==
  IF x = <<>> THEN TRUE
  ELSE IF y = <<>> THEN FALSE
  ELSE IF Head(x) = Head(y) THEN IsSubsequence(Tail(x), Tail(y))
  ELSE IsSubsequence(x, Tail(y))

\* The length of a longest common subsequence of a and b: the largest set of
\* positions of a whose characters, in order, are a subsequence of b.
LongestCommonSubsequence(a, b) ==
  LET common == {S \in SUBSET (1..Len(a)) :
                   IsSubsequence(MatchedChars(a, [k \in 1..Len(a) |->
                                                    IF k \in S THEN 1 ELSE 0]), b)}
      sizes == {Cardinality(S) : S \in common}
  IN CHOOSE n \in sizes : \A k \in sizes : k <= n

\* C13: IndelDistance(a, b) = len(a) + len(b) - 2 * (the length of a longest
\* common subsequence of a and b), the edit distance with insertions and
\* deletions at cost 1 and substitutions at cost 2.
C13_IndelIsLcsDistance ==
  called = "IndelDistance" =>
    distance = Len(strA) + Len(strB) - 2 * LongestCommonSubsequence(strA, strB)

\* C13's case: the first characters differ, so a deletion or an insertion is
\* paid for, and the strings still share a subsequence of two characters.
C13_Witness ==
  /\ called = "IndelDistance"
  /\ Len(strA) > 0
  /\ Len(strB) > 0
  /\ strA[1] # strB[1]
  /\ LongestCommonSubsequence(strA, strB) >= 2
  /\ distance > 0

\* Goroutine g is between writeResultLock.Lock() and writeResultLock.Unlock().
HoldsLock(g) == gpc[g] \in {"compare", "unlock"}

\* No two goroutines are between Lock and Unlock at once.
MutualExclusion ==
  \A g \in Goroutines : \A h \in Goroutines :
    (HoldsLock(g) /\ HoldsLock(h)) => g = h

\* The goroutine about to read and write highestRatio and currentSuggestion
\* holds the mutex: the mutex is locked exactly while some goroutine is between
\* Lock and Unlock, and no Unlock meets an unlocked mutex.
AccessUnderLock ==
  /\ writeResultLock <=> (\E g \in Goroutines : HoldsLock(g))
  /\ \A g \in Goroutines : gpc[g] # "fatal"

\* The caller reads the shared best only after every goroutine has ended.
ReadAfterWait ==
  pcMain \in {"return", "returned"} =>
    /\ wg = 0
    /\ \A g \in Goroutines : gpc[g] = "exited"

\* The returned Likelihood is the maximum of 0 and the candidates' scores, and
\* the returned Word a candidate attaining it, or "" when no score is above 0.
ReturnsMaximum ==
  op = "ConcurrentSuggestWord" =>
    LET scores == {algorithm[validWords[i]] : i \in 1..Len(validWords)}
        best == suggestion.Likelihood
    IN /\ best \in scores \cup {Zero}
       /\ ~FracLt(best, Zero)
       /\ \A x \in scores : ~FracLt(best, x)
       /\ IF \E x \in scores : Gt(x, Zero)
            THEN \E i \in 1..Len(validWords) :
                   /\ suggestion.Word = validWords[i]
                   /\ FracEq(algorithm[validWords[i]], best)
          ELSE suggestion.Word = <<>>

\* A step that changes highestRatio or currentSuggestion starts and ends with
\* the mutex locked.
WritesUnderLock ==
  (highestRatio' # highestRatio \/ currentSuggestion' # currentSuggestion) =>
    (writeResultLock /\ writeResultLock')

\* C14: in the lock-guarded concurrent selector, under every interleaving, at
\* most one goroutine is between Lock and Unlock, the shared best is read and
\* written by the goroutines only with the lock held, every goroutine ends so
\* that wg.Wait returns and the call returns, and the returned Likelihood is
\* the maximum of 0 and the scores with Word a candidate attaining it (or "").
C14_LockGuardedSelector ==
  /\ [](MutualExclusion /\ AccessUnderLock /\ ReadAfterWait /\ ReturnsMaximum)
  /\ [][WritesUnderLock]_vars
  /\ <>(pcMain = "returned")

\* C14's case: two different candidates tie on a score above 0 and the call
\* returned the second, whose goroutine took the lock first.
C14_Witness ==
  /\ pcMain = "returned"
  /\ op = "ConcurrentSuggestWord"
  /\ Len(validWords) >= 2
  /\ validWords[1] # validWords[2]
  /\ FracEq(algorithm[validWords[1]], algorithm[validWords[2]])
  /\ Gt(algorithm[validWords[1]], Zero)
  /\ suggestion.Word = validWords[2]
  /\ FracEq(suggestion.Likelihood, algorithm[validWords[2]])

====
